---- MODULE Spec2Model ----
(***************************************************************************)
(* A model of example_code.py: the toy classifier (its channel schedule    *)
(* and the shape its forward pass computes), the calibration data reader   *)
(* of the ONNX path, and the four deployment orchestrators driven by main  *)
(* or by a client calling them in any order.                               *)
(***************************************************************************)
EXTENDS Integers, Sequences, FiniteSets, TLC

VARIABLES
    \* ---- ToyClassifier construction and forward (SpecClassifier)
    optimized,      \* the constructor's argument
    net,            \* the constructed ToyClassifier, or NoModel
    input,          \* shape of the tensor handed to forward
    x,              \* shape of the tensor flowing through forward
    fpc,            \* position inside __init__ / forward
    blk,            \* index of the block forward is about to apply
    \* ---- ONNXQuantizationDataReader (SpecReader)
    quant_loader,   \* the batches the loader yields, each a sequence of frames
    input_name,     \* the constructor's input_name
    data,           \* self.data
    iter,           \* self.iter: the list it walks and its position
    rpc,            \* "new" before __init__, "ready" after
    returned,       \* what the calls of get_next returned so far, in order
    \* ---- the deployment orchestrators and their callers (Spec)
    driver,         \* who calls the orchestrators: "main" or a "client"
    mainpc,         \* main: index of the next statement of MainProgram
    ncalls,         \* client: orchestrator calls made so far
    model,          \* the caller's model object
    model0,         \* the caller's model as it was constructed
    engine,         \* torch.backends.quantized.engine
    fs,             \* the files written: path -> what was saved
    out,            \* the lines printed
    pc,             \* "idle", or the statement the running orchestrator is at
    call,           \* the orchestrator call in progress (or the last one)
    frame,          \* the local variables of the orchestrator call
    trace           \* what the call in progress did so far, in order

clsVars == <<optimized, net, input, x, fpc, blk>>
readerVars == <<quant_loader, input_name, data, iter, rpc, returned>>
deployVars == <<driver, mainpc, ncalls, model, model0, engine, fs, out, pc, call,
                frame, trace>>

\* ------------------------------------------------------------------ bounds

\* Largest batch size of a forward pass that is explored.
MaxBatch == 6

\* Most batches a loader yields, and the most frames in one batch.
MaxBatches == 3
MaxBatchSize == 3
\* Orchestrator calls a client makes.
MaxCalls == 2
\* Calls of get_next explored after the data ran out.
MaxExtraCalls == 2

\* ------------------------------------------------------- program constants

NumClasses == 1000
ImageChannels == 3
ImageSize == 224
Divisor == 8

NoModel == [kind |-> "none"]
ShapeError == <<"error">>

\* next(self.iter, None) on an exhausted iterator.
None == << >>

\* The parts of the state a specification does not use stay as they are here.
ReaderIdle ==
    /\ quant_loader = << >>
    /\ input_name = ""
    /\ data = << >>
    /\ iter = [items |-> << >>, pos |-> 1]
    /\ rpc = "off"
    /\ returned = << >>

NoCall == [fn |-> "none", name |-> "", fuse |-> FALSE, backend |-> "", engine0 |-> ""]
NoTensor == [dtype |-> "none", layout |-> "none", nnapi_nhwc |-> FALSE, by |-> NoModel]
NoFrame ==
    [model |-> NoModel, model_prepared |-> NoModel, model_quantized |-> NoModel,
     path |-> "", i |-> 1, quantizer |-> NoModel, dequantizer |-> NoModel,
     input_tensor |-> NoTensor, traced |-> NoModel, nnapi_model |-> NoModel,
     float_interface |-> << >>, reader |-> [items |-> << >>, pos |-> 1]]

DeployIdle ==
    /\ driver = "off"
    /\ mainpc = 1
    /\ ncalls = 0
    /\ model = NoModel
    /\ model0 = NoModel
    /\ engine = "none"
    /\ fs = << >>
    /\ out = << >>
    /\ pc = "off"
    /\ call = NoCall
    /\ frame = NoFrame
    /\ trace = << >>

ClassifierIdle ==
    /\ optimized = FALSE
    /\ net = NoModel
    /\ input = << >>
    /\ x = << >>
    /\ fpc = "off"
    /\ blk = 1

\* ------------------------------------------------------------ ToyClassifier

\* The (in_channels, out_channels, stride) schedule of __init__.
block_params ==
    << <<3, 18, 1>>, <<18, 36, 2>>, <<36, 74, 1>>, <<74, 146, 2>>,
       <<146, 290, 1>>, <<290, 578, 2>>, <<578, 1154, 1>>, <<1154, 1154, 2>> >>

Max(a, b) == IF a >= b THEN a ELSE b

\* torchvision.models.mobilenetv2._make_divisible with min_value = divisor:
\*   new_v = max(divisor, int(v + divisor / 2) // divisor * divisor)
\*   if new_v < 0.9 * v: new_v += divisor
_make_divisible(v, divisor) ==
    LET new_v == Max(divisor, ((v + divisor \div 2) \div divisor) * divisor)
    IN  IF 10 * new_v < 9 * v THEN new_v + divisor ELSE new_v

ConvBNReLU(in_channels, out_channels, stride) ==
    [kind |-> "ConvBNReLU", in_channels |-> in_channels,
     out_channels |-> out_channels, stride |-> stride, fused |-> FALSE]

OptimizedConvBNReLU(in_channels, out_channels, stride) ==
    [kind |-> "OptimizedConvBNReLU", in_channels |-> in_channels,
     out_channels |-> out_channels, stride |-> stride, fused |-> FALSE]

\* The block list of the optimized branch with the rounding left out.
OptimizedBlocksUnrounded ==
    [k \in 1..Len(block_params) |->
        OptimizedConvBNReLU(block_params[k][1], block_params[k][2], block_params[k][3])]

\* The block list of the optimized branch with only the outputs rounded.
OptimizedBlocksRawInputs ==
    [k \in 1..Len(block_params) |->
        OptimizedConvBNReLU(block_params[k][1],
                            _make_divisible(block_params[k][2], Divisor),
                            block_params[k][3])]

\* optimized branch: the first block takes 3 channels as they are, every other
\* width goes through _make_divisible(., 8).
OptimizedBlocks ==
    [k \in 1..Len(block_params) |->
        IF k = 1
        THEN OptimizedConvBNReLU(3, _make_divisible(block_params[1][2], Divisor),
                                 block_params[1][3])
        ELSE OptimizedConvBNReLU(_make_divisible(block_params[k][1], Divisor),
                                 _make_divisible(block_params[k][2], Divisor),
                                 block_params[k][3])]

\* canonical branch: the raw schedule.
CanonicalBlocks ==
    [k \in 1..Len(block_params) |->
        ConvBNReLU(block_params[k][1], block_params[k][2], block_params[k][3])]

\* A submodule object: its class and the object that owns it.
Module(kind, owner) == [kind |-> kind, owner |-> owner]

\* ToyClassifier.__init__: a fresh module is in training mode, carries no
\* qconfig, and holds the QuantStub / DeQuantStub markers. stage and observed
\* are what the quantization workflow later attaches: whether the object is
\* the float model, a prepared one (with the samples its observers saw) or a
\* converted one.
ToyClassifier(opt) ==
    [kind        |-> "ToyClassifier",
     optimized   |-> opt,
     blocks      |-> IF opt THEN OptimizedBlocks ELSE CanonicalBlocks,
     in_features |-> IF opt THEN _make_divisible(1154, Divisor) ELSE 1154,
     out_features |-> NumClasses,
     training    |-> TRUE,
     qconfig     |-> "none",
     quant       |-> Module("QuantStub", "model"),
     dequant     |-> Module("DeQuantStub", "model"),
     stage       |-> "float",
     observed    |-> << >>]

\* ------------------------------------------------------------ tensor shapes

\* nn.Conv2d on an (N, C, H, W) input: the channel count must match, and each
\* spatial size becomes floor((size + 2 * padding - kernel) / stride) + 1.
Conv2d(shape, in_channels, out_channels, kernel, stride, padding) ==
    IF shape = ShapeError \/ shape[2] # in_channels
    THEN ShapeError
    ELSE <<shape[1], out_channels,
           (shape[3] + 2 * padding - kernel) \div stride + 1,
           (shape[4] + 2 * padding - kernel) \div stride + 1>>

\* BatchNorm2d and ReLU keep the shape; BatchNorm2d checks the channel count.
\* After fusion the normalisation is folded into the convolution.
BatchNorm2d(shape, num_features) ==
    IF shape = ShapeError \/ shape[2] # num_features THEN ShapeError ELSE shape

\* forward of one block: ConvBNReLU is conv3x3 -> bn -> relu,
\* OptimizedConvBNReLU is depthwise conv3x3 -> pointwise conv1x1 -> bn -> relu.
BlockForward(b, shape) ==
    IF b.kind = "ConvBNReLU"
    THEN BatchNorm2d(Conv2d(shape, b.in_channels, b.out_channels, 3, b.stride, 1),
                     b.out_channels)
    ELSE BatchNorm2d(Conv2d(Conv2d(shape, b.in_channels, b.in_channels, 3, b.stride, 1),
                            b.in_channels, b.out_channels, 1, 1, 0),
                     b.out_channels)

\* nn.AdaptiveAvgPool2d(1): (N, C, H, W) -> (N, C, 1, 1).
AdaptiveAvgPool2d(shape, size) ==
    IF shape = ShapeError THEN ShapeError ELSE <<shape[1], shape[2], size, size>>

\* ------------------------------------------- SpecClassifier: build and run

InitClassifier ==
    /\ optimized \in BOOLEAN
    /\ net = NoModel
    /\ input \in {<<b, ImageChannels, ImageSize, ImageSize>> : b \in 1..MaxBatch}
    /\ x = input
    /\ fpc = "init"
    /\ blk = 1
    /\ ReaderIdle
    /\ DeployIdle

\* model = ToyClassifier(optimized=optimized)
Construct ==
    /\ fpc = "init"
    /\ net' = ToyClassifier(optimized)
    /\ fpc' = "quant"
    /\ UNCHANGED <<optimized, input, x, blk>>
    /\ UNCHANGED <<readerVars, deployVars>>

\* x = self.quant(x): the stub keeps the shape.
ForwardQuant ==
    /\ fpc = "quant"
    /\ fpc' = "blocks"
    /\ blk' = 1
    /\ UNCHANGED <<optimized, input, net, x>>
    /\ UNCHANGED <<readerVars, deployVars>>

\* for block in self.blocks: x = block(x)
ForwardBlock ==
    /\ fpc = "blocks"
    /\ blk <= Len(net.blocks)
    /\ x' = BlockForward(net.blocks[blk], x)
    /\ blk' = blk + 1
    /\ fpc' = IF blk = Len(net.blocks) THEN "pooling" ELSE "blocks"
    /\ UNCHANGED <<optimized, input, net>>
    /\ UNCHANGED <<readerVars, deployVars>>

\* The pooling left out: the feature map keeps its spatial size.
ForwardPoolingSkipped ==
    /\ fpc = "pooling"
    /\ fpc' = "classifier"
    /\ UNCHANGED <<optimized, input, net, x, blk>>
    /\ UNCHANGED <<readerVars, deployVars>>

\* features = self.pooling(x)
ForwardPooling ==
    /\ fpc = "pooling"
    /\ x' = AdaptiveAvgPool2d(x, 1)
    /\ fpc' = "classifier"
    /\ UNCHANGED <<optimized, input, net, blk>>
    /\ UNCHANGED <<readerVars, deployVars>>

\* logits = self.classifier(features): a 1x1 convolution to 1000 channels.
ForwardClassifier ==
    /\ fpc = "classifier"
    /\ x' = Conv2d(x, net.in_features, net.out_features, 1, 1, 0)
    /\ fpc' = "dequant"
    /\ UNCHANGED <<optimized, input, net, blk>>
    /\ UNCHANGED <<readerVars, deployVars>>

\* logits = self.dequant(logits); return logits
ForwardDequant ==
    /\ fpc = "dequant"
    /\ fpc' = "returned"
    /\ UNCHANGED <<optimized, input, net, x, blk>>
    /\ UNCHANGED <<readerVars, deployVars>>

\* ---------------------------------------- ONNXQuantizationDataReader

\* A frame of the loader: one (3, 224, 224) tensor, told apart by its place.
Frame(b, j) == [shape |-> <<ImageChannels, ImageSize, ImageSize>>, id |-> <<b, j>>]

\* A loader yielding batches of the given sizes.
LoaderOf(sizes) == [b \in DOMAIN sizes |-> [j \in 1..sizes[b] |-> Frame(b, j)]]

\* input_frame.unsqueeze(0).numpy(): a leading dimension of size 1.
Unsqueeze0(t) == [shape |-> <<1>> \o t.shape, id |-> t.id]

\* for inputs in quant_loader: for input_frame in inputs: self.data.append(...)
RECURSIVE Unroll(_)
Unroll(batches) ==
    IF batches = << >> THEN << >>
    ELSE [j \in DOMAIN Head(batches) |-> Unsqueeze0(Head(batches)[j])]
         \o Unroll(Tail(batches))

\* iter([{input_name: d} for d in self.data])
NamedRecords(name, ds) == [k \in DOMAIN ds |-> (name :> ds[k])]

InitReader ==
    /\ quant_loader \in
         {LoaderOf(sizes) : sizes \in UNION {[1..n -> 1..MaxBatchSize] : n \in 0..MaxBatches}}
    /\ input_name \in {"input_image", "x"}
    /\ data = << >>
    /\ iter = [items |-> << >>, pos |-> 1]
    /\ rpc = "new"
    /\ returned = << >>
    /\ ClassifierIdle
    /\ DeployIdle

\* ONNXQuantizationDataReader.__init__
ReaderInit ==
    /\ rpc = "new"
    /\ data' = Unroll(quant_loader)
    /\ iter' = [items |-> NamedRecords(input_name, Unroll(quant_loader)), pos |-> 1]
    /\ rpc' = "ready"
    /\ UNCHANGED <<quant_loader, input_name, returned>>
    /\ UNCHANGED <<clsVars, deployVars>>

\* A get_next that starts over when the data ran out.
get_next_looping ==
    /\ rpc = "ready"
    /\ Len(returned) < Len(iter.items) + MaxExtraCalls
    /\ IF iter.pos <= Len(iter.items)
       THEN /\ returned' = Append(returned, iter.items[iter.pos])
            /\ iter' = [iter EXCEPT !.pos = @ + 1]
       ELSE IF Len(iter.items) > 0
            THEN /\ returned' = Append(returned, iter.items[1])
                 /\ iter' = [iter EXCEPT !.pos = 2]
            ELSE /\ returned' = Append(returned, None)
                 /\ iter' = iter
    /\ UNCHANGED <<quant_loader, input_name, data, rpc>>
    /\ UNCHANGED <<clsVars, deployVars>>

\* get_next: next(self.iter, None)
get_next ==
    /\ rpc = "ready"
    /\ Len(returned) < Len(iter.items) + MaxExtraCalls
    /\ IF iter.pos <= Len(iter.items)
       THEN /\ returned' = Append(returned, iter.items[iter.pos])
            /\ iter' = [iter EXCEPT !.pos = @ + 1]
       ELSE /\ returned' = Append(returned, None)
            /\ iter' = iter
    /\ UNCHANGED <<quant_loader, input_name, data, rpc>>
    /\ UNCHANGED <<clsVars, deployVars>>

NextReader ==
    \/ ReaderInit
    \/ get_next

\* ------------------------------------------------- the external framework

\* Length of ToyDataset; DataLoader(dataset) yields it in batches of one.
DatasetLen == 10

\* The engine a process starts with depends on the build of the framework.
EngineDefaults == {"fbgemm", "qnnpack", "none"}
Backends == {"fbgemm", "qnnpack"}
Names == {"classifier", "optimized_classifier"}

\* deepcopy(model): every submodule is a new object owned by the copy.
deepcopy(m, owner) ==
    [m EXCEPT !.quant = Module(m.quant.kind, owner),
              !.dequant = Module(m.dequant.kind, owner)]

\* ToyClassifier.fuse: every block fuses its convolution, normalisation and
\* activation in place.
fuse(m) == [m EXCEPT !.blocks = [k \in DOMAIN m.blocks |-> [m.blocks[k] EXCEPT !.fused = TRUE]]]

\* torch.quantization.prepare(model): a copy with observers attached.
prepare(m) ==
    [deepcopy(m, "model_prepared") EXCEPT !.stage = "prepared", !.observed = << >>]

\* model_prepared(sample): the observers of a prepared model record the sample.
Observe(m, sample) ==
    IF m.stage = "prepared" THEN [m EXCEPT !.observed = Append(@, sample)] ELSE m

\* torch.quantization.convert(model_prepared): a copy whose stubs became the
\* quantize / dequantize modules and whose weights are quantized.
convert(m) ==
    [m EXCEPT !.stage = "quantized",
              !.quant = Module("Quantize", "model_quantized"),
              !.dequant = Module("DeQuantize", "model_quantized")]

\* The attributes of a model object that prepare and convert depend on.
Summary(m) ==
    [stage |-> m.stage, training |-> m.training, qconfig |-> m.qconfig,
     fused |-> \A k \in DOMAIN m.blocks : m.blocks[k].fused,
     observed |-> m.observed]

\* torch.rand(1, 3, 224, 224)
Rand == [dtype |-> "float", layout |-> "contiguous", nnapi_nhwc |-> FALSE,
         by |-> Module("rand", "torch")]

\* Calling a boundary module on a tensor: Quantize yields a quantized tensor,
\* a stub or an Identity hands its input on.
Apply(module, t) ==
    IF module.kind = "Quantize" THEN [t EXCEPT !.dtype = "quint8", !.by = module]
    ELSE IF module.kind = "DeQuantize" THEN [t EXCEPT !.dtype = "float", !.by = module]
    ELSE t

\* torch.jit.trace(model, example): the graph of the modules forward runs.
Traced(m, example) ==
    [kind |-> "traced", stage |-> m.stage, example |-> example,
     graph |-> <<m.quant, Module("blocks", "model"), Module("pooling", "model"),
                 Module("classifier", "model"), m.dequant>>]

\* dataloader = DataLoader(dataset): batches of one sample.
dataloader == LoaderOf([b \in 1..DatasetLen |-> 1])

\* An event of the call in progress, with the engine selected when it happens.
Ev(op, arg) == [op |-> op, engine |-> engine, arg |-> arg]

\* torch.jit.save / onnx.export / quantize_static writing a file: a file of
\* the same name is overwritten.
Saved(path, artifact, m) ==
    (path :> [artifact |-> artifact, stage |-> m.stage]) @@ fs

\* print(f'Benchmarking {path}: Avg. inference@CPU: ... ms, Size: ... MB')
BenchLine(path) == [line |-> "Benchmarking", path |-> path]

\* ------------------------------------------------------------- the callers

Stmt(op, opt, name, fuse_, backend) ==
    [op |-> op, optimized |-> opt, name |-> name, fuse |-> fuse_, backend |-> backend]

\* The statements of one pass of main's loop.
MainPass(opt, name) ==
    << Stmt("ToyClassifier", opt, name, FALSE, ""),
       Stmt("deploy_float", opt, name, FALSE, ""),
       Stmt("deploy_onnx_quantized", opt, name, FALSE, ""),
       Stmt("deploy_onnx_quantized", opt, name, TRUE, ""),
       Stmt("deploy_quantized", opt, name, FALSE, "fbgemm"),
       Stmt("deploy_quantized", opt, name, TRUE, "fbgemm"),
       Stmt("deploy_nnapi", opt, name, TRUE, "qnnpack") >>

\* for optimized, name in [(False, 'classifier'), (True, 'optimized_classifier')]
MainProgram == MainPass(FALSE, "classifier") \o MainPass(TRUE, "optimized_classifier")

FirstLabel(fn) ==
    CASE fn = "deploy_float" -> "F_eval"
      [] fn = "deploy_quantized" -> "Q_copy"
      [] fn = "deploy_nnapi" -> "N_copy"
      [] fn = "deploy_onnx_quantized" -> "O_copy"

\* Entering an orchestrator: its arguments are bound and its body starts.
Enter(fn, name, fuse_, backend) ==
    /\ call' = [fn |-> fn, name |-> name, fuse |-> fuse_, backend |-> backend,
                engine0 |-> engine]
    /\ pc' = FirstLabel(fn)
    /\ frame' = NoFrame
    /\ trace' = << >>

Init ==
    /\ driver \in {"main", "client"}
    /\ mainpc = 1
    /\ ncalls = 0
    /\ \/ driver = "main" /\ model = NoModel
       \/ driver = "client" /\ model \in {ToyClassifier(opt) : opt \in BOOLEAN}
    /\ model0 = model
    /\ engine \in EngineDefaults
    /\ fs = << >>
    /\ out = << >>
    /\ pc = "idle"
    /\ call = NoCall
    /\ frame = NoFrame
    /\ trace = << >>
    /\ ClassifierIdle
    /\ ReaderIdle

\* main: model = ToyClassifier(optimized=optimized); print the parameter count.
MainConstruct ==
    /\ driver = "main" /\ pc = "idle"
    /\ mainpc <= Len(MainProgram)
    /\ MainProgram[mainpc].op = "ToyClassifier"
    /\ model' = ToyClassifier(MainProgram[mainpc].optimized)
    /\ model0' = model'
    /\ out' = Append(out, [line |-> "Model", path |-> MainProgram[mainpc].name])
    /\ mainpc' = mainpc + 1
    /\ UNCHANGED <<driver, ncalls, engine, fs, pc, call, frame, trace>>
    /\ UNCHANGED <<clsVars, readerVars>>

\* main: the next deploy_* call of the loop body.
MainCall ==
    /\ driver = "main" /\ pc = "idle"
    /\ mainpc <= Len(MainProgram)
    /\ MainProgram[mainpc].op # "ToyClassifier"
    /\ Enter(MainProgram[mainpc].op, MainProgram[mainpc].name,
             MainProgram[mainpc].fuse, MainProgram[mainpc].backend)
    /\ mainpc' = mainpc + 1
    /\ UNCHANGED <<driver, ncalls, model, model0, engine, fs, out>>
    /\ UNCHANGED <<clsVars, readerVars>>

\* A client calls deploy_float(model, name).
ClientCallFloat ==
    /\ driver = "client" /\ pc = "idle"
    /\ ncalls < MaxCalls
    /\ \E name \in Names : Enter("deploy_float", name, FALSE, "")
    /\ ncalls' = ncalls + 1
    /\ UNCHANGED <<driver, mainpc, model, model0, engine, fs, out>>
    /\ UNCHANGED <<clsVars, readerVars>>

\* A client calls deploy_onnx_quantized(dataloader, model, fuse, name).
ClientCallOnnx ==
    /\ driver = "client" /\ pc = "idle"
    /\ ncalls < MaxCalls
    /\ \E name \in Names, fuse_ \in BOOLEAN :
          Enter("deploy_onnx_quantized", name, fuse_, "")
    /\ ncalls' = ncalls + 1
    /\ UNCHANGED <<driver, mainpc, model, model0, engine, fs, out>>
    /\ UNCHANGED <<clsVars, readerVars>>

\* A client calls deploy_quantized or deploy_nnapi(dataloader, model, fuse,
\* name, backend).
ClientCallQuantized ==
    /\ driver = "client" /\ pc = "idle"
    /\ ncalls < MaxCalls
    /\ \E fn \in {"deploy_quantized", "deploy_nnapi"}, name \in Names,
          fuse_ \in BOOLEAN, backend \in Backends :
          Enter(fn, name, fuse_, backend)
    /\ ncalls' = ncalls + 1
    /\ UNCHANGED <<driver, mainpc, model, model0, engine, fs, out>>
    /\ UNCHANGED <<clsVars, readerVars>>

\* ------------------------------------------------------------ deploy_float

\* The three paths of deploy_float.
F_scripted_path == "./" \o call.name \o "_float_scripted.pt"
F_traced_path == "./" \o call.name \o "_float_traced.pt"
F_vulkan_path == "./" \o call.name \o "_float_vulkan_traced.pt"

\* model.eval(), on the caller's own object.
F_eval ==
    /\ pc = "F_eval"
    /\ model' = [model EXCEPT !.training = FALSE]
    /\ trace' = Append(trace, Ev("eval", "model"))
    /\ pc' = "F_script"
    /\ UNCHANGED <<driver, mainpc, ncalls, model0, engine, fs, out, call, frame>>
    /\ UNCHANGED <<clsVars, readerVars>>

\* script_and_serialize(model, path=scripted_path)
F_script ==
    /\ pc = "F_script"
    /\ fs' = Saved(F_scripted_path, "scripted", model)
    /\ trace' = trace \o <<Ev("script", model.stage),
                           Ev("save", F_scripted_path)>>
    /\ pc' = "F_trace"
    /\ UNCHANGED <<driver, mainpc, ncalls, model, model0, engine, out, call, frame>>
    /\ UNCHANGED <<clsVars, readerVars>>

\* trace_and_serialize(model, example=torch.rand(1, 3, 224, 224), path=traced_path)
F_trace ==
    /\ pc = "F_trace"
    /\ fs' = Saved(F_traced_path, "traced", model)
    /\ trace' = trace \o <<Ev("trace", model.stage),
                           Ev("save", F_traced_path)>>
    /\ pc' = "F_vulkan"
    /\ UNCHANGED <<driver, mainpc, ncalls, model, model0, engine, out, call, frame>>
    /\ UNCHANGED <<clsVars, readerVars>>

\* script_and_serialize(model, path=vulkan_path, opt_backend='VULKAN')
F_vulkan ==
    /\ pc = "F_vulkan"
    /\ fs' = Saved(F_vulkan_path, "vulkan", model)
    /\ trace' = trace \o <<Ev("script", model.stage),
                           Ev("save", F_vulkan_path)>>
    /\ pc' = "F_bench_scripted"
    /\ UNCHANGED <<driver, mainpc, ncalls, model, model0, engine, out, call, frame>>
    /\ UNCHANGED <<clsVars, readerVars>>

\* benchmark_model(torch.jit.load(scripted_path)); print(...)
F_bench_scripted ==
    /\ pc = "F_bench_scripted"
    /\ out' = Append(out, BenchLine(F_scripted_path))
    /\ trace' = trace \o <<Ev("benchmark", F_scripted_path),
                           Ev("print", F_scripted_path)>>
    /\ pc' = "F_bench_traced"
    /\ UNCHANGED <<driver, mainpc, ncalls, model, model0, engine, fs, call, frame>>
    /\ UNCHANGED <<clsVars, readerVars>>

\* benchmark_model(torch.jit.load(traced_path)); print(...)
F_bench_traced ==
    /\ pc = "F_bench_traced"
    /\ out' = Append(out, BenchLine(F_traced_path))
    /\ trace' = trace \o <<Ev("benchmark", F_traced_path),
                           Ev("print", F_traced_path)>>
    /\ pc' = "F_bench_vulkan"
    /\ UNCHANGED <<driver, mainpc, ncalls, model, model0, engine, fs, call, frame>>
    /\ UNCHANGED <<clsVars, readerVars>>

\* benchmark_model(torch.jit.load(vulkan_path)); print(...); return
F_bench_vulkan ==
    /\ pc = "F_bench_vulkan"
    /\ out' = Append(out, BenchLine(F_vulkan_path))
    /\ trace' = trace \o <<Ev("benchmark", F_vulkan_path),
                           Ev("print", F_vulkan_path)>>
    /\ pc' = "idle"
    /\ UNCHANGED <<driver, mainpc, ncalls, model, model0, engine, fs, call, frame>>
    /\ UNCHANGED <<clsVars, readerVars>>


\* ------------------------------------------------------- deploy_quantized

\* model = deepcopy(model)
Q_copy ==
    /\ pc = "Q_copy"
    /\ frame' = [frame EXCEPT !.model = deepcopy(model, "copy")]
    /\ trace' = Append(trace, Ev("deepcopy", "model"))
    /\ pc' = "Q_engine"
    /\ UNCHANGED <<driver, mainpc, ncalls, model, model0, engine, fs, out, call>>
    /\ UNCHANGED <<clsVars, readerVars>>

\* The assignment of the engine left out.
Q_engine_skipped ==
    /\ pc = "Q_engine"
    /\ trace' = Append(trace, Ev("set_engine", call.backend))
    /\ pc' = "Q_qconfig"
    /\ UNCHANGED <<driver, mainpc, ncalls, model, model0, engine, fs, out, call, frame>>
    /\ UNCHANGED <<clsVars, readerVars>>

\* torch.backends.quantized.engine = backend
Q_engine ==
    /\ pc = "Q_engine"
    /\ engine' = call.backend
    /\ trace' = Append(trace, Ev("set_engine", call.backend))
    /\ pc' = "Q_qconfig"
    /\ UNCHANGED <<driver, mainpc, ncalls, model, model0, fs, out, call, frame>>
    /\ UNCHANGED <<clsVars, readerVars>>

\* model.qconfig = torch.quantization.get_default_qconfig(backend)
\* path = f'./{name}_quant'
Q_qconfig ==
    /\ pc = "Q_qconfig"
    /\ frame' = [frame EXCEPT !.model.qconfig = call.backend,
                              !.path = "./" \o call.name \o "_quant"]
    /\ trace' = Append(trace, Ev("get_default_qconfig", call.backend))
    /\ pc' = "Q_eval"
    /\ UNCHANGED <<driver, mainpc, ncalls, model, model0, engine, fs, out, call>>
    /\ UNCHANGED <<clsVars, readerVars>>

\* model = model.eval()
Q_eval ==
    /\ pc = "Q_eval"
    /\ frame' = [frame EXCEPT !.model.training = FALSE]
    /\ trace' = Append(trace, Ev("eval", "copy"))
    /\ pc' = "Q_fuse"
    /\ UNCHANGED <<driver, mainpc, ncalls, model, model0, engine, fs, out, call>>
    /\ UNCHANGED <<clsVars, readerVars>>

\* The fused marker left off the path.
Q_fuse_unmarked ==
    /\ pc = "Q_fuse"
    /\ frame' = IF call.fuse THEN [frame EXCEPT !.model = fuse(@)] ELSE frame
    /\ trace' = IF call.fuse THEN Append(trace, Ev("fuse", "copy")) ELSE trace
    /\ pc' = "Q_prepare"
    /\ UNCHANGED <<driver, mainpc, ncalls, model, model0, engine, fs, out, call>>
    /\ UNCHANGED <<clsVars, readerVars>>

\* if fuse: model.fuse(); path += '_fused'
Q_fuse ==
    /\ pc = "Q_fuse"
    /\ frame' = IF call.fuse
                THEN [frame EXCEPT !.model = fuse(@), !.path = @ \o "_fused"]
                ELSE frame
    /\ trace' = IF call.fuse THEN Append(trace, Ev("fuse", "copy")) ELSE trace
    /\ pc' = "Q_prepare"
    /\ UNCHANGED <<driver, mainpc, ncalls, model, model0, engine, fs, out, call>>
    /\ UNCHANGED <<clsVars, readerVars>>

\* model_prepared = torch.quantization.prepare(model)
Q_prepare ==
    /\ pc = "Q_prepare"
    /\ frame' = [frame EXCEPT !.model_prepared = prepare(frame.model), !.i = 1]
    /\ trace' = Append(trace, Ev("prepare", Summary(frame.model)))
    /\ pc' = "Q_calibrate"
    /\ UNCHANGED <<driver, mainpc, ncalls, model, model0, engine, fs, out, call>>
    /\ UNCHANGED <<clsVars, readerVars>>

\* for sample in dataloader: model_prepared(sample)
Q_calibrate ==
    /\ pc = "Q_calibrate"
    /\ frame.i <= DatasetLen
    /\ frame' = [frame EXCEPT !.model_prepared = Observe(@, frame.i), !.i = @ + 1]
    /\ trace' = Append(trace, Ev("calibrate",
                    [sample |-> frame.i, stage |-> frame.model_prepared.stage]))
    /\ pc' = IF frame.i = DatasetLen THEN "Q_convert" ELSE "Q_calibrate"
    /\ UNCHANGED <<driver, mainpc, ncalls, model, model0, engine, fs, out, call>>
    /\ UNCHANGED <<clsVars, readerVars>>

\* A convert that cuts the calibration loop short.
Q_convert_early ==
    /\ pc \in {"Q_calibrate", "Q_convert"}
    /\ frame' = [frame EXCEPT !.model_quantized = convert(frame.model_prepared)]
    /\ trace' = Append(trace, Ev("convert", Summary(frame.model_prepared)))
    /\ pc' = "Q_script"
    /\ UNCHANGED <<driver, mainpc, ncalls, model, model0, engine, fs, out, call>>
    /\ UNCHANGED <<clsVars, readerVars>>

\* model_quantized = torch.quantization.convert(model_prepared)
Q_convert ==
    /\ pc = "Q_convert"
    /\ frame' = [frame EXCEPT !.model_quantized = convert(frame.model_prepared)]
    /\ trace' = Append(trace, Ev("convert", Summary(frame.model_prepared)))
    /\ pc' = "Q_script"
    /\ UNCHANGED <<driver, mainpc, ncalls, model, model0, engine, fs, out, call>>
    /\ UNCHANGED <<clsVars, readerVars>>

\* scripted_path = path + '_scripted.pt'
\* script_and_serialize(model_quantized, path=scripted_path, opt_backend='CPU')
Q_script ==
    /\ pc = "Q_script"
    /\ fs' = Saved(frame.path \o "_scripted.pt", "scripted", frame.model_quantized)
    /\ trace' = trace \o <<Ev("script", frame.model_quantized.stage),
                           Ev("save", frame.path \o "_scripted.pt")>>
    /\ pc' = "Q_trace"
    /\ UNCHANGED <<driver, mainpc, ncalls, model, model0, engine, out, call, frame>>
    /\ UNCHANGED <<clsVars, readerVars>>

\* traced_path = path + '_traced.pt'
\* trace_and_serialize(model_quantized, example=..., path=traced_path, opt_backend='CPU')
Q_trace ==
    /\ pc = "Q_trace"
    /\ fs' = Saved(frame.path \o "_traced.pt", "traced", frame.model_quantized)
    /\ trace' = trace \o <<Ev("trace", frame.model_quantized.stage),
                           Ev("save", frame.path \o "_traced.pt")>>
    /\ pc' = "Q_bench_scripted"
    /\ UNCHANGED <<driver, mainpc, ncalls, model, model0, engine, out, call, frame>>
    /\ UNCHANGED <<clsVars, readerVars>>

\* The report of the scripted artifact left out.
Q_bench_scripted_silent ==
    /\ pc = "Q_bench_scripted"
    /\ trace' = Append(trace, Ev("benchmark", frame.path \o "_scripted.pt"))
    /\ pc' = "Q_bench_traced"
    /\ UNCHANGED <<driver, mainpc, ncalls, model, model0, engine, fs, out, call, frame>>
    /\ UNCHANGED <<clsVars, readerVars>>

\* benchmark_model(torch.jit.load(scripted_path)); print(...)
Q_bench_scripted ==
    /\ pc = "Q_bench_scripted"
    /\ out' = Append(out, BenchLine(frame.path \o "_scripted.pt"))
    /\ trace' = trace \o <<Ev("benchmark", frame.path \o "_scripted.pt"),
                           Ev("print", frame.path \o "_scripted.pt")>>
    /\ pc' = "Q_bench_traced"
    /\ UNCHANGED <<driver, mainpc, ncalls, model, model0, engine, fs, call, frame>>
    /\ UNCHANGED <<clsVars, readerVars>>

\* benchmark_model(torch.jit.load(traced_path)); print(...); return
Q_bench_traced ==
    /\ pc = "Q_bench_traced"
    /\ out' = Append(out, BenchLine(frame.path \o "_traced.pt"))
    /\ trace' = trace \o <<Ev("benchmark", frame.path \o "_traced.pt"),
                           Ev("print", frame.path \o "_traced.pt")>>
    /\ pc' = "idle"
    /\ UNCHANGED <<driver, mainpc, ncalls, model, model0, engine, fs, call, frame>>
    /\ UNCHANGED <<clsVars, readerVars>>

\* ------------------------------------------------------------ deploy_nnapi

\* model = deepcopy(model)
N_copy ==
    /\ pc = "N_copy"
    /\ frame' = [frame EXCEPT !.model = deepcopy(model, "copy")]
    /\ trace' = Append(trace, Ev("deepcopy", "model"))
    /\ pc' = "N_engine"
    /\ UNCHANGED <<driver, mainpc, ncalls, model, model0, engine, fs, out, call>>
    /\ UNCHANGED <<clsVars, readerVars>>

\* torch.backends.quantized.engine = backend
N_engine ==
    /\ pc = "N_engine"
    /\ engine' = call.backend
    /\ trace' = Append(trace, Ev("set_engine", call.backend))
    /\ pc' = "N_qconfig"
    /\ UNCHANGED <<driver, mainpc, ncalls, model, model0, fs, out, call, frame>>
    /\ UNCHANGED <<clsVars, readerVars>>

\* model.qconfig = torch.quantization.get_default_qconfig(backend)
\* path = f'./{name}_nnapi'
N_qconfig ==
    /\ pc = "N_qconfig"
    /\ frame' = [frame EXCEPT !.model.qconfig = call.backend,
                              !.path = "./" \o call.name \o "_nnapi"]
    /\ trace' = Append(trace, Ev("get_default_qconfig", call.backend))
    /\ pc' = "N_eval"
    /\ UNCHANGED <<driver, mainpc, ncalls, model, model0, engine, fs, out, call>>
    /\ UNCHANGED <<clsVars, readerVars>>

\* model = model.eval()
N_eval ==
    /\ pc = "N_eval"
    /\ frame' = [frame EXCEPT !.model.training = FALSE]
    /\ trace' = Append(trace, Ev("eval", "copy"))
    /\ pc' = "N_fuse"
    /\ UNCHANGED <<driver, mainpc, ncalls, model, model0, engine, fs, out, call>>
    /\ UNCHANGED <<clsVars, readerVars>>

\* if fuse: model.fuse(); path += '_fused'
N_fuse ==
    /\ pc = "N_fuse"
    /\ frame' = IF call.fuse
                THEN [frame EXCEPT !.model = fuse(@), !.path = @ \o "_fused"]
                ELSE frame
    /\ trace' = IF call.fuse THEN Append(trace, Ev("fuse", "copy")) ELSE trace
    /\ pc' = "N_prepare"
    /\ UNCHANGED <<driver, mainpc, ncalls, model, model0, engine, fs, out, call>>
    /\ UNCHANGED <<clsVars, readerVars>>

\* model_prepared = torch.quantization.prepare(model)
N_prepare ==
    /\ pc = "N_prepare"
    /\ frame' = [frame EXCEPT !.model_prepared = prepare(frame.model), !.i = 1]
    /\ trace' = Append(trace, Ev("prepare", Summary(frame.model)))
    /\ pc' = "N_calibrate"
    /\ UNCHANGED <<driver, mainpc, ncalls, model, model0, engine, fs, out, call>>
    /\ UNCHANGED <<clsVars, readerVars>>

\* for sample in dataloader: model_prepared(sample)
N_calibrate ==
    /\ pc = "N_calibrate"
    /\ frame.i <= DatasetLen
    /\ frame' = [frame EXCEPT !.model_prepared = Observe(@, frame.i), !.i = @ + 1]
    /\ trace' = Append(trace, Ev("calibrate",
                    [sample |-> frame.i, stage |-> frame.model_prepared.stage]))
    /\ pc' = IF frame.i = DatasetLen THEN "N_convert" ELSE "N_calibrate"
    /\ UNCHANGED <<driver, mainpc, ncalls, model, model0, engine, fs, out, call>>
    /\ UNCHANGED <<clsVars, readerVars>>

\* model_quantized = torch.quantization.convert(model_prepared)
N_convert ==
    /\ pc = "N_convert"
    /\ frame' = [frame EXCEPT !.model_quantized = convert(frame.model_prepared)]
    /\ trace' = Append(trace, Ev("convert", Summary(frame.model_prepared)))
    /\ pc' = "N_strip"
    /\ UNCHANGED <<driver, mainpc, ncalls, model, model0, engine, fs, out, call>>
    /\ UNCHANGED <<clsVars, readerVars>>

\* The boundary modules kept in the model that is traced.
N_strip_kept ==
    /\ pc = "N_strip"
    /\ frame' = [frame EXCEPT !.quantizer = frame.model_quantized.quant,
                              !.dequantizer = frame.model_quantized.dequant,
                              !.input_tensor = Rand]
    /\ trace' = Append(trace, Ev("strip", "model_quantized"))
    /\ pc' = "N_quantize_input"
    /\ UNCHANGED <<driver, mainpc, ncalls, model, model0, engine, fs, out, call>>
    /\ UNCHANGED <<clsVars, readerVars>>

\* input_float = torch.rand(1, 3, 224, 224)
\* quantizer = model_quantized.quant; dequantizer = model_quantized.dequant
\* model_quantized.quant = torch.nn.Identity()
\* model_quantized.dequant = torch.nn.Identity()
N_strip ==
    /\ pc = "N_strip"
    /\ frame' = [frame EXCEPT !.quantizer = frame.model_quantized.quant,
                              !.dequantizer = frame.model_quantized.dequant,
                              !.model_quantized.quant = Module("Identity", "line 222"),
                              !.model_quantized.dequant = Module("Identity", "line 223"),
                              !.input_tensor = Rand]
    /\ trace' = Append(trace, Ev("strip", "model_quantized"))
    /\ pc' = "N_quantize_input"
    /\ UNCHANGED <<driver, mainpc, ncalls, model, model0, engine, fs, out, call>>
    /\ UNCHANGED <<clsVars, readerVars>>

\* input_tensor = quantizer(input_float)
N_quantize_input ==
    /\ pc = "N_quantize_input"
    /\ frame' = [frame EXCEPT !.input_tensor = Apply(frame.quantizer, @)]
    /\ trace' = Append(trace, Ev("quantize_input", frame.quantizer))
    /\ pc' = "N_channels_last"
    /\ UNCHANGED <<driver, mainpc, ncalls, model, model0, engine, fs, out, call>>
    /\ UNCHANGED <<clsVars, readerVars>>

\* input_tensor = input_tensor.contiguous(memory_format=torch.channels_last)
\* input_tensor.nnapi_nhwc = True
N_channels_last ==
    /\ pc = "N_channels_last"
    /\ frame' = [frame EXCEPT !.input_tensor.layout = "channels_last",
                              !.input_tensor.nnapi_nhwc = TRUE]
    /\ trace' = Append(trace, Ev("channels_last", "input_tensor"))
    /\ pc' = "N_trace"
    /\ UNCHANGED <<driver, mainpc, ncalls, model, model0, engine, fs, out, call>>
    /\ UNCHANGED <<clsVars, readerVars>>

\* model_quantized_traced = torch.jit.trace(model_quantized, input_tensor)
N_trace ==
    /\ pc = "N_trace"
    /\ frame' = [frame EXCEPT !.traced = Traced(frame.model_quantized, frame.input_tensor)]
    /\ trace' = Append(trace, Ev("trace", frame.model_quantized.stage))
    /\ pc' = "N_lower"
    /\ UNCHANGED <<driver, mainpc, ncalls, model, model0, engine, fs, out, call>>
    /\ UNCHANGED <<clsVars, readerVars>>

\* nnapi_model = convert_model_to_nnapi(model_quantized_traced, input_tensor)
N_lower ==
    /\ pc = "N_lower"
    /\ frame' = [frame EXCEPT !.nnapi_model =
                    [kind |-> "nnapi", graph |-> frame.traced.graph,
                     stage |-> frame.traced.stage, input |-> frame.input_tensor]]
    /\ trace' = Append(trace, Ev("convert_model_to_nnapi", "model_quantized_traced"))
    /\ pc' = "N_wrap"
    /\ UNCHANGED <<driver, mainpc, ncalls, model, model0, engine, fs, out, call>>
    /\ UNCHANGED <<clsVars, readerVars>>

\* nnapi_model_float_interface = torch.jit.script(
\*     torch.nn.Sequential(quantizer, nnapi_model, dequantizer))
N_wrap ==
    /\ pc = "N_wrap"
    /\ frame' = [frame EXCEPT !.float_interface =
                    <<frame.quantizer, frame.nnapi_model, frame.dequantizer>>]
    /\ trace' = Append(trace, Ev("script", frame.nnapi_model.stage))
    /\ pc' = "N_save_traced"
    /\ UNCHANGED <<driver, mainpc, ncalls, model, model0, engine, fs, out, call>>
    /\ UNCHANGED <<clsVars, readerVars>>

\* traced_path = path + '_traced.pt'; nnapi_model.save(traced_path)
N_save_traced ==
    /\ pc = "N_save_traced"
    /\ fs' = Saved(frame.path \o "_traced.pt", "nnapi", frame.nnapi_model)
    /\ trace' = Append(trace, Ev("save", frame.path \o "_traced.pt"))
    /\ pc' = "N_save_float_interface"
    /\ UNCHANGED <<driver, mainpc, ncalls, model, model0, engine, out, call, frame>>
    /\ UNCHANGED <<clsVars, readerVars>>

\* traced_float_path = path + '_float_interface_traced.pt'
\* nnapi_model_float_interface.save(traced_float_path); return
N_save_float_interface ==
    /\ pc = "N_save_float_interface"
    /\ fs' = Saved(frame.path \o "_float_interface_traced.pt", "nnapi_float_interface",
                   frame.nnapi_model)
    /\ trace' = Append(trace, Ev("save", frame.path \o "_float_interface_traced.pt"))
    /\ pc' = "idle"
    /\ UNCHANGED <<driver, mainpc, ncalls, model, model0, engine, out, call, frame>>
    /\ UNCHANGED <<clsVars, readerVars>>

\* --------------------------------------------------- deploy_onnx_quantized

\* model = deepcopy(model); path = f'./{name}'
O_copy ==
    /\ pc = "O_copy"
    /\ frame' = [frame EXCEPT !.model = deepcopy(model, "copy"),
                              !.path = "./" \o call.name]
    /\ trace' = Append(trace, Ev("deepcopy", "model"))
    /\ pc' = "O_eval"
    /\ UNCHANGED <<driver, mainpc, ncalls, model, model0, engine, fs, out, call>>
    /\ UNCHANGED <<clsVars, readerVars>>

\* model = model.eval()
O_eval ==
    /\ pc = "O_eval"
    /\ frame' = [frame EXCEPT !.model.training = FALSE]
    /\ trace' = Append(trace, Ev("eval", "copy"))
    /\ pc' = "O_fuse"
    /\ UNCHANGED <<driver, mainpc, ncalls, model, model0, engine, fs, out, call>>
    /\ UNCHANGED <<clsVars, readerVars>>

\* if fuse: model.fuse(); path += '_fused'
O_fuse ==
    /\ pc = "O_fuse"
    /\ frame' = IF call.fuse
                THEN [frame EXCEPT !.model = fuse(@), !.path = @ \o "_fused"]
                ELSE frame
    /\ trace' = IF call.fuse THEN Append(trace, Ev("fuse", "copy")) ELSE trace
    /\ pc' = "O_export"
    /\ UNCHANGED <<driver, mainpc, ncalls, model, model0, engine, fs, out, call>>
    /\ UNCHANGED <<clsVars, readerVars>>

\* float_path = path + '_float.onnx'; onnx.export(model=model, ..., f=float_path, ...)
O_export ==
    /\ pc = "O_export"
    /\ fs' = Saved(frame.path \o "_float.onnx", "onnx_float", frame.model)
    /\ trace' = trace \o <<Ev("export", frame.model.stage),
                           Ev("save", frame.path \o "_float.onnx")>>
    /\ pc' = "O_reader"
    /\ UNCHANGED <<driver, mainpc, ncalls, model, model0, engine, out, call, frame>>
    /\ UNCHANGED <<clsVars, readerVars>>

\* onnx_q_loader = ONNXQuantizationDataReader(quant_loader=dataloader,
\*                                            input_name='input_image')
O_reader ==
    /\ pc = "O_reader"
    /\ frame' = [frame EXCEPT !.reader =
                    [items |-> NamedRecords("input_image", Unroll(dataloader)),
                     pos |-> 1]]
    /\ trace' = Append(trace, Ev("reader", Len(Unroll(dataloader))))
    /\ pc' = "O_quantize_static"
    /\ UNCHANGED <<driver, mainpc, ncalls, model, model0, engine, fs, out, call>>
    /\ UNCHANGED <<clsVars, readerVars>>

\* quantized_path = path + '_quant.onnx'
\* quantize_static(model_input=float_path, model_output=quantized_path,
\*                 calibration_data_reader=onnx_q_loader)
\* The calibration pulls records with get_next until it returns None.
O_quantize_static ==
    /\ pc = "O_quantize_static"
    /\ frame' = [frame EXCEPT !.reader.pos = Len(frame.reader.items) + 1]
    /\ fs' = (frame.path \o "_quant.onnx" :>
                 [artifact |-> "onnx_quant", stage |-> "quantized"]) @@ fs
    /\ trace' = trace \o <<Ev("quantize_static", Len(frame.reader.items)),
                           Ev("save", frame.path \o "_quant.onnx")>>
    /\ pc' = "O_bench_float"
    /\ UNCHANGED <<driver, mainpc, ncalls, model, model0, engine, out, call>>
    /\ UNCHANGED <<clsVars, readerVars>>

\* benchmark_onnx_model(rt.InferenceSession(float_path)); print(...)
O_bench_float ==
    /\ pc = "O_bench_float"
    /\ out' = Append(out, BenchLine(frame.path \o "_float.onnx"))
    /\ trace' = trace \o <<Ev("benchmark", frame.path \o "_float.onnx"),
                           Ev("print", frame.path \o "_float.onnx")>>
    /\ pc' = "O_bench_quant"
    /\ UNCHANGED <<driver, mainpc, ncalls, model, model0, engine, fs, call, frame>>
    /\ UNCHANGED <<clsVars, readerVars>>

\* benchmark_onnx_model(rt.InferenceSession(quantized_path)); print(...); return
O_bench_quant ==
    /\ pc = "O_bench_quant"
    /\ out' = Append(out, BenchLine(frame.path \o "_quant.onnx"))
    /\ trace' = trace \o <<Ev("benchmark", frame.path \o "_quant.onnx"),
                           Ev("print", frame.path \o "_quant.onnx")>>
    /\ pc' = "idle"
    /\ UNCHANGED <<driver, mainpc, ncalls, model, model0, engine, fs, call, frame>>
    /\ UNCHANGED <<clsVars, readerVars>>

Next ==
    \/ MainConstruct
    \/ MainCall
    \/ ClientCallFloat
    \/ ClientCallOnnx
    \/ ClientCallQuantized
    \/ F_eval
    \/ F_script
    \/ F_trace
    \/ F_vulkan
    \/ F_bench_scripted
    \/ F_bench_traced
    \/ F_bench_vulkan
    \/ Q_copy
    \/ Q_engine
    \/ Q_qconfig
    \/ Q_eval
    \/ Q_fuse
    \/ Q_prepare
    \/ Q_calibrate
    \/ Q_convert
    \/ Q_script
    \/ Q_trace
    \/ Q_bench_scripted
    \/ Q_bench_traced
    \/ N_copy
    \/ N_engine
    \/ N_qconfig
    \/ N_eval
    \/ N_fuse
    \/ N_prepare
    \/ N_calibrate
    \/ N_convert
    \/ N_strip
    \/ N_quantize_input
    \/ N_channels_last
    \/ N_trace
    \/ N_lower
    \/ N_wrap
    \/ N_save_traced
    \/ N_save_float_interface
    \/ O_copy
    \/ O_eval
    \/ O_fuse
    \/ O_export
    \/ O_reader
    \/ O_quantize_static
    \/ O_bench_float
    \/ O_bench_quant

NextClassifier ==
    \/ Construct
    \/ ForwardQuant
    \/ ForwardBlock
    \/ ForwardPooling
    \/ ForwardClassifier
    \/ ForwardDequant

vars == <<clsVars, readerVars, deployVars>>

SpecClassifier == InitClassifier /\ [][NextClassifier]_vars

SpecReader == InitReader /\ [][NextReader]_vars

Spec == Init /\ [][Next]_vars

\* ===================================================================
\* Properties
\* ===================================================================

\* ---- helpers over the events of the call in progress

Ops(op) == {k \in DOMAIN trace : trace[k].op = op}
SavedPaths == {trace[k].arg : k \in Ops("save")}
PrintedPaths == {trace[k].arg : k \in Ops("print")}
InCall == call.fn # "none"
CallEnded == pc = "idle" /\ call.fn # "none"
MainEnded == driver = "main" /\ pc = "idle" /\ mainpc > Len(MainProgram)
Quantizing == call.fn \in {"deploy_quantized", "deploy_nnapi"}
FusedMark == IF call.fuse THEN "_fused" ELSE ""

\* ---- C1
\* C1: no orchestrator mutates the caller's model: whatever calls were made,
\* the caller's model (mode flag, fused status of the blocks, qconfig,
\* quant/dequant submodules, observers) is as it was constructed.
C1_CallerModelUntouched == model = model0

\* ---- C2
\* w2 is w rounded to a multiple of 8 the way _make_divisible does: to the
\* nearest multiple, and never below nine tenths of w.
RoundsTo(w, w2) ==
    /\ w2 % 8 = 0
    /\ 10 * w2 >= 9 * w
    /\ w - w2 < 4
    /\ w2 - w < 8

\* C2 (as amended): in the optimized variant every width of the schedule is
\* replaced by a multiple of 8 that is at least nine tenths of it (the nearest
\* multiple of 8, which may lie below the width): 18, 36, 74, 146, 290, 578,
\* 1154 become 24, 40, 72, 144, 288, 576, 1152.
C2_WidthsRoundedToNearest ==
    (net.kind = "ToyClassifier" /\ optimized) =>
        /\ \A k \in DOMAIN block_params :
              /\ RoundsTo(block_params[k][2], net.blocks[k].out_channels)
              /\ k > 1 => RoundsTo(block_params[k][1], net.blocks[k].in_channels)
        /\ RoundsTo(1154, net.in_features)
        /\ [k \in DOMAIN block_params |-> net.blocks[k].out_channels]
              = <<24, 40, 72, 144, 288, 576, 1152, 1152>>

\* C2 (as claimed): every width is replaced by a multiple of 8 that is not
\* below it.
C2_WidthsNeverRoundedDown ==
    (net.kind = "ToyClassifier" /\ optimized) =>
        \A k \in DOMAIN block_params :
            /\ net.blocks[k].out_channels % 8 = 0
            /\ net.blocks[k].out_channels >= block_params[k][2]

C2_Witness ==
    /\ net.kind = "ToyClassifier"
    /\ optimized
    /\ net.blocks[1].out_channels = 24
    /\ net.blocks[3].out_channels = 72

\* ---- C3
\* C3 (as amended): for both variants and every batch size B, forward maps a
\* (B, 3, 224, 224) input to a (B, 1000, 1, 1) tensor; the eight blocks leave
\* a 14 x 14 feature map that the pooling reduces to 1 x 1.
C3_OutputShape4D ==
    /\ fpc = "pooling" => x = <<input[1], net.blocks[8].out_channels, 14, 14>>
    /\ fpc = "returned" => x = <<input[1], NumClasses, 1, 1>>

\* C3 (as claimed): forward returns a tensor of shape exactly (B, 1000).
C3_OutputShape2D == fpc = "returned" => x = <<input[1], NumClasses>>

C3_Witness == fpc = "returned" /\ optimized /\ input[1] > 1 /\ Len(x) = 4

\* ---- C8
\* C8: the block chain is channel-consistent in both variants: the first block
\* takes 3 channels, each block's output count is the next block's input
\* count, the classifier convolution takes the last block's output count, and
\* so no layer of forward rejects its input.
C8_ChannelChain ==
    /\ net.kind = "ToyClassifier" =>
          /\ net.blocks[1].in_channels = ImageChannels
          /\ \A k \in 1..(Len(net.blocks) - 1) :
                net.blocks[k].out_channels = net.blocks[k + 1].in_channels
          /\ net.in_features = net.blocks[Len(net.blocks)].out_channels
    /\ x # ShapeError

C8_Witness ==
    /\ net.kind = "ToyClassifier"
    /\ optimized
    /\ net.blocks[2].in_channels = 24
    /\ fpc = "returned"

\* ---- C6
RECURSIVE SizeUpTo(_)
\* Samples in the first b batches of the loader.
SizeUpTo(b) == IF b = 0 THEN 0 ELSE Len(quant_loader[b]) + SizeUpTo(b - 1)

NumSamples == SizeUpTo(Len(quant_loader))

\* The place <<b, j>> of the k-th individual sample in loader order.
SampleAt(k) ==
    CHOOSE p \in {<<b, j>> : b \in DOMAIN quant_loader, j \in 1..MaxBatchSize + 1} :
        /\ p[2] <= Len(quant_loader[p[1]])
        /\ SizeUpTo(p[1] - 1) + p[2] = k

\* C6: the calls of get_next return one record per individual sample, in
\* loader order, each the single-key map {input_name: sample with a leading
\* dimension of 1}; every call after the last sample returns None; no sample
\* comes twice.
C6_OneRecordPerSample ==
    rpc = "ready" =>
        /\ Len(data) = NumSamples
        /\ \A k \in DOMAIN returned :
              IF k <= NumSamples
              THEN /\ DOMAIN returned[k] = {input_name}
                   /\ returned[k][input_name] =
                         [shape |-> <<1, ImageChannels, ImageSize, ImageSize>>,
                          id |-> SampleAt(k)]
              ELSE returned[k] = None
        /\ \A k1, k2 \in DOMAIN returned :
              (k1 < k2 /\ k2 <= NumSamples) => returned[k1] # returned[k2]

C6_Witness ==
    /\ rpc = "ready"
    /\ Len(quant_loader) >= 2
    /\ NumSamples >= 4
    /\ Len(returned) = NumSamples + 2
    /\ returned[NumSamples + 1] = None

\* ---- C4
\* The paths as the code composes them: the fused marker follows the variant
\* tag of deploy_quantized and deploy_nnapi, and the name in
\* deploy_onnx_quantized.
ComposedPaths ==
    CASE call.fn = "deploy_float" ->
            {"./" \o call.name \o "_float_scripted.pt",
             "./" \o call.name \o "_float_traced.pt",
             "./" \o call.name \o "_float_vulkan_traced.pt"}
      [] call.fn = "deploy_quantized" ->
            {"./" \o call.name \o "_quant" \o FusedMark \o "_scripted.pt",
             "./" \o call.name \o "_quant" \o FusedMark \o "_traced.pt"}
      [] call.fn = "deploy_nnapi" ->
            {"./" \o call.name \o "_nnapi" \o FusedMark \o "_traced.pt",
             "./" \o call.name \o "_nnapi" \o FusedMark \o "_float_interface_traced.pt"}
      [] call.fn = "deploy_onnx_quantized" ->
            {"./" \o call.name \o FusedMark \o "_float.onnx",
             "./" \o call.name \o FusedMark \o "_quant.onnx"}

\* The paths as the patterns state them: the fused marker directly after the
\* name, before the variant tag.
StatedPaths ==
    CASE call.fn = "deploy_float" ->
            {"./" \o call.name \o "_float_scripted.pt",
             "./" \o call.name \o "_float_traced.pt",
             "./" \o call.name \o "_float_vulkan_traced.pt"}
      [] call.fn = "deploy_quantized" ->
            {"./" \o call.name \o FusedMark \o "_quant_scripted.pt",
             "./" \o call.name \o FusedMark \o "_quant_traced.pt"}
      [] call.fn = "deploy_nnapi" ->
            {"./" \o call.name \o FusedMark \o "_nnapi_traced.pt",
             "./" \o call.name \o FusedMark \o "_nnapi_float_interface_traced.pt"}
      [] call.fn = "deploy_onnx_quantized" ->
            {"./" \o call.name \o FusedMark \o "_float.onnx",
             "./" \o call.name \o FusedMark \o "_quant.onnx"}

\* C4 (as amended): deploy_quantized writes {name}_quant[_fused]_scripted.pt
\* and {name}_quant[_fused]_traced.pt, deploy_nnapi writes
\* {name}_nnapi[_fused]_traced.pt and
\* {name}_nnapi[_fused]_float_interface_traced.pt (the marker after the variant
\* tag); deploy_onnx_quantized and deploy_float write the paths as stated.
C4_PathsAsComposed ==
    InCall =>
        /\ SavedPaths \subseteq ComposedPaths
        /\ SavedPaths \subseteq DOMAIN fs
        /\ CallEnded => SavedPaths = ComposedPaths

\* C4 (as claimed): the paths written follow the stated patterns.
C4_PathsAsStated ==
    InCall =>
        /\ SavedPaths \subseteq StatedPaths
        /\ CallEnded => SavedPaths = StatedPaths

C4_Witness ==
    /\ CallEnded
    /\ call.fn = "deploy_nnapi"
    /\ call.fuse
    /\ "./classifier_nnapi_fused_float_interface_traced.pt" \in SavedPaths

\* ---- C5
BenchPaths == {out[k].path : k \in {j \in DOMAIN out : out[j].line = "Benchmarking"}}
TimesReported(p) ==
    Cardinality({k \in DOMAIN out : out[k].line = "Benchmarking" /\ out[k].path = p})
LoweredArtifacts == {"nnapi", "nnapi_float_interface"}

\* Within a call: a report follows the save of its artifact, and no artifact is
\* reported twice.
ReportsFollowSaves ==
    /\ \A k \in Ops("print") : \E j \in Ops("save") : j < k /\ trace[j].arg = trace[k].arg
    /\ \A k1, k2 \in Ops("print") : trace[k1].arg = trace[k2].arg => k1 = k2
    /\ \A k \in Ops("print") :
          k > 1 /\ trace[k - 1].op = "benchmark" /\ trace[k - 1].arg = trace[k].arg

\* C5 (as amended): every artifact deploy_float, deploy_quantized and
\* deploy_onnx_quantized write is benchmarked and reported exactly once, after
\* it was saved; the two artifacts of deploy_nnapi are saved and never
\* reported. At the end of main the reported paths are the saved paths other
\* than those of deploy_nnapi, each reported once.
C5_ReportsExceptNnapi ==
    /\ ReportsFollowSaves
    /\ CallEnded =>
          IF call.fn = "deploy_nnapi"
          THEN PrintedPaths = {} /\ Cardinality(SavedPaths) = 2
          ELSE PrintedPaths = SavedPaths
    /\ MainEnded =>
          /\ BenchPaths = {p \in DOMAIN fs : fs[p].artifact \notin LoweredArtifacts}
          /\ \A p \in BenchPaths : TimesReported(p) = 1
          /\ Cardinality({p \in DOMAIN fs : fs[p].artifact \in LoweredArtifacts}) = 4

\* C5 (as claimed): at the end of an orchestrator call, and of main, the paths
\* saved are the paths reported, each reported once and after its save.
C5_EveryArtifactReported ==
    /\ ReportsFollowSaves
    /\ CallEnded => PrintedPaths = SavedPaths
    /\ MainEnded => (BenchPaths = DOMAIN fs /\ \A p \in BenchPaths : TimesReported(p) = 1)

C5_Witness == MainEnded /\ Cardinality(BenchPaths) = 22 /\ Cardinality(DOMAIN fs) = 26

\* ---- C7
BackendDependentOps ==
    {"get_default_qconfig", "prepare", "calibrate", "convert", "script", "trace",
     "save", "benchmark"}

\* C7: in deploy_quantized and deploy_nnapi every backend-dependent operation
\* runs with the engine equal to the call's backend; the engine is not
\* restored on return and the other orchestrators leave it alone, so in main
\* the second variant's deploy_float and deploy_onnx_quantized run under
\* 'qnnpack'.
C7_EngineFollowsBackend ==
    /\ Quantizing =>
          /\ \A k \in DOMAIN trace :
                trace[k].op \in BackendDependentOps => trace[k].engine = call.backend
          /\ Ops("set_engine") # {} => engine = call.backend
          /\ Ops("set_engine") = {} => engine = call.engine0
    /\ (InCall /\ ~Quantizing) =>
          /\ engine = call.engine0
          /\ \A k \in DOMAIN trace : trace[k].engine = call.engine0
    /\ (driver = "main" /\ mainpc \in 10..12) => engine = "qnnpack"

C7_Witness ==
    /\ driver = "main"
    /\ mainpc = 11
    /\ call.fn = "deploy_onnx_quantized"
    /\ pc = "O_quantize_static"
    /\ engine = "qnnpack"

\* ---- C9
Before(opA, k) == \E j \in Ops(opA) : j < k

\* C9: in deploy_quantized and deploy_nnapi, eval precedes fuse; fuse (when
\* requested) and the qconfig assignment precede prepare; the samples of the
\* dataloader pass through the prepared model once each, in order, after
\* prepare and before convert; convert happens once, after the whole dataset,
\* and before any script, trace or save.
C9_QuantizationOrder ==
    Quantizing =>
        /\ \A k \in Ops("fuse") : Before("eval", k)
        /\ ~call.fuse => Ops("fuse") = {}
        /\ \A k \in Ops("prepare") :
              /\ Before("get_default_qconfig", k)
              /\ Before("eval", k)
              /\ call.fuse => Before("fuse", k)
              /\ trace[k].arg.qconfig = call.backend
              /\ trace[k].arg.training = FALSE
              /\ trace[k].arg.fused = call.fuse
        /\ \A k \in Ops("calibrate") :
              /\ Before("prepare", k)
              /\ ~Before("convert", k)
              /\ trace[k].arg.stage = "prepared"
              /\ trace[k].arg.sample = Cardinality({j \in Ops("calibrate") : j <= k})
        /\ Cardinality(Ops("convert")) <= 1
        /\ \A k \in Ops("convert") :
              /\ Cardinality({j \in Ops("calibrate") : j < k}) = DatasetLen
              /\ trace[k].arg.observed = [n \in 1..DatasetLen |-> n]
              /\ trace[k].arg.stage = "prepared"
        /\ \A k \in Ops("script") \cup Ops("trace") \cup Ops("save") : Before("convert", k)
        /\ \A k \in Ops("script") \cup Ops("trace") : trace[k].arg = "quantized"
        /\ CallEnded => Cardinality(Ops("convert")) = 1

C9_Witness ==
    /\ CallEnded
    /\ call.fn = "deploy_quantized"
    /\ call.fuse
    /\ Cardinality(Ops("calibrate")) = DatasetLen
    /\ Ops("fuse") # {}

\* ---- C10
BoundaryKinds == {"QuantStub", "DeQuantStub", "Quantize", "DeQuantize"}

\* C10: in deploy_nnapi the boundary modules are replaced by no-ops before the
\* model is traced, so the traced and lowered graph holds none; the example
\* input comes from the removed quantizer and is channel-last before tracing;
\* the float-interface wrapper is quantizer -> accelerator graph ->
\* dequantizer, built after lowering from the very modules that were removed.
C10_StripBeforeTrace ==
    call.fn = "deploy_nnapi" =>
        /\ \A k \in Ops("trace") :
              /\ Before("strip", k)
              /\ Before("quantize_input", k)
              /\ Before("channels_last", k)
        /\ \A k \in Ops("convert_model_to_nnapi") : Before("trace", k)
        /\ frame.traced.kind = "traced" =>
              /\ \A n \in DOMAIN frame.traced.graph :
                    frame.traced.graph[n].kind \notin BoundaryKinds
              /\ frame.traced.graph[1].kind = "Identity"
              /\ frame.traced.graph[5].kind = "Identity"
              /\ frame.traced.example.dtype = "quint8"
              /\ frame.traced.example.by = frame.quantizer
              /\ frame.traced.example.layout = "channels_last"
              /\ frame.traced.example.nnapi_nhwc
        /\ frame.nnapi_model.kind = "nnapi" =>
              /\ frame.nnapi_model.graph = frame.traced.graph
              /\ frame.nnapi_model.input = frame.traced.example
        /\ frame.float_interface # << >> =>
              /\ Ops("convert_model_to_nnapi") # {}
              /\ frame.float_interface =
                    <<Module("Quantize", "model_quantized"), frame.nnapi_model,
                      Module("DeQuantize", "model_quantized")>>
              /\ frame.float_interface[1] = frame.quantizer
              /\ frame.float_interface[3] = frame.dequantizer

C10_Witness ==
    /\ CallEnded
    /\ call.fn = "deploy_nnapi"
    /\ frame.float_interface # << >>
    /\ frame.traced.graph[1].kind = "Identity"

====
